---- MODULE Spec2Model ----
(***************************************************************************)
(* Model of setup.mjs, the MCP Metadata Setup Wizard: a line-based         *)
(* question/answer script that collects four validated values, asks one or *)
(* two confirmations and copies four template files to new names with      *)
(* token substitution.                                                     *)
(*                                                                         *)
(* Strings are TLA+ strings; a character is a string of length one.  A     *)
(* path join(FORCE_APP_DIR, dir, name) is the pair <<dir, name>>.          *)
(***************************************************************************)
EXTENDS Integers, Sequences, FiniteSets, TLC

VARIABLES
    pc,        \* position of main: "welcome", "collect", "review", "overwrite", "exited"
    fs,        \* regular files: function from path <<dir, name>> to content
    dirs,      \* directories: <<dir>> for a rule directory, <<dir, name>> for a sub-directory
    fs0,       \* the regular files as they were when the run started (never assigned after Init)
    varIdx,    \* index into VARIABLES of the variable promptWithValidation is asking
    values,    \* the values object of main: function from collected keys to strings
    existing,  \* result of getExistingInstances()
    answer,    \* the line the last prompt() resolved with
    out,       \* what the last handler wrote to the console (log.* lines and prompts)
    exitCode,  \* process exit status, -1 while the process runs
    stdinOpen  \* whether standard input can still deliver a line

vars == <<pc, fs, dirs, fs0, varIdx, values, existing, answer, out, exitCode, stdinOpen>>

-----------------------------------------------------------------------------
(* Characters and strings *)

CharAt(s, i) == SubSeq(s, i, i)

LowerAlpha == "abcdefghijklmnopqrstuvwxyz"
UpperAlpha == "ABCDEFGHIJKLMNOPQRSTUVWXYZ"
DigitChars == "0123456789"

CharsOf(s) == {CharAt(s, i) : i \in 1..Len(s)}

\* [a-zA-Z]
LetterClass == CharsOf(LowerAlpha) \cup CharsOf(UpperAlpha)

\* [a-zA-Z0-9_]
WordClass == LetterClass \cup CharsOf(DigitChars) \cup {"_"}

\* the characters a regular expression's . does not match (readline never
\* delivers \n or \r inside a line; a directory entry name may hold them)
LineTerminators == {"\n", "\r"}

\* String.prototype.toLowerCase, one character
LowerChar(ch) ==
    IF ch \in CharsOf(UpperAlpha)
    THEN CharAt(LowerAlpha, CHOOSE i \in 1..Len(UpperAlpha) : CharAt(UpperAlpha, i) = ch)
    ELSE ch

RECURSIVE LowerFrom(_, _)
LowerFrom(s, i) ==
    IF i > Len(s) THEN "" ELSE LowerChar(CharAt(s, i)) \o LowerFrom(s, i + 1)

toLowerCase(s) == LowerFrom(s, 1)

\* whether t occurs in s at position p (1-based)
OccursAt(s, t, p) == p >= 1 /\ p + Len(t) - 1 <= Len(s) /\ SubSeq(s, p, p + Len(t) - 1) = t

\* String.prototype.indexOf(t, from), 1-based, 0 when there is no occurrence
RECURSIVE IndexOf(_, _, _)
IndexOf(s, t, from) ==
    IF from + Len(t) - 1 > Len(s) THEN 0
    ELSE IF OccursAt(s, t, from) THEN from
    ELSE IndexOf(s, t, from + 1)

StartsWith(s, t) == OccursAt(s, t, 1)

EndsWith(s, t) == OccursAt(s, t, Len(s) - Len(t) + 1)

-----------------------------------------------------------------------------
(* Configuration *)

TEMPLATE_NAME == "template"

\* /^[a-zA-Z][a-zA-Z0-9_]*$/ : the scan of the rest of the input after the
\* first character; $ (no m flag) matches at the end of the input only
RECURSIVE WordRest(_, _)
WordRest(val, i) ==
    IF i > Len(val) THEN TRUE
    ELSE CharAt(val, i) \in WordClass /\ WordRest(val, i + 1)

\* the identifier expression without its end anchor $
IdentifierRegexNoAnchor(val) ==
    /\ Len(val) >= 1
    /\ CharAt(val, 1) \in LetterClass

IdentifierRegex(val) ==
    /\ Len(val) >= 1
    /\ CharAt(val, 1) \in LetterClass
    /\ WordRest(val, 2)

\* /^https?:\/\/.+/ : the prefix, then . once (.+ needs one character that
\* is no line terminator; nothing anchors the end)
UrlAfter(val, prefix) ==
    /\ StartsWith(val, prefix)
    /\ Len(val) > Len(prefix)
    /\ CharAt(val, Len(prefix) + 1) \notin LineTerminators

UrlRegex(val) == UrlAfter(val, "http://") \/ UrlAfter(val, "https://")

NamespaceValidate(val) == val = "" \/ IdentifierRegex(val)

VARIABLES_ ==
    << [key |-> "MCP_NAME",          optional |-> FALSE],
       [key |-> "MCP_SERVER_URL",    optional |-> FALSE],
       [key |-> "AUTH_PROVIDER_URL", optional |-> FALSE],
       [key |-> "NAMESPACE",         optional |-> TRUE ] >>

\* validate with the optional variable passed unchecked
validateSkipOptional(k, val) ==
    CASE k = 1 -> IdentifierRegex(val)
      [] k = 2 -> UrlRegex(val)
      [] k = 3 -> UrlRegex(val)
      [] k = 4 -> TRUE

\* variable.validate(val) of the variable at index k of VARIABLES
validate(k, val) ==
    CASE k = 1 -> IdentifierRegex(val)
      [] k = 2 -> UrlRegex(val)
      [] k = 3 -> UrlRegex(val)
      [] k = 4 -> NamespaceValidate(val)

FILES ==
    << [dir |-> "externalCredentials",
        oldName |-> TEMPLATE_NAME \o ".externalCredential-meta.xml",
        suffix  |-> ".externalCredential-meta.xml"],
       [dir |-> "externalServiceRegistrations",
        oldName |-> TEMPLATE_NAME \o ".externalServiceRegistration-meta.xml",
        suffix  |-> ".externalServiceRegistration-meta.xml"],
       [dir |-> "namedCredentials",
        oldName |-> TEMPLATE_NAME \o ".namedCredential-meta.xml",
        suffix  |-> ".namedCredential-meta.xml"],
       [dir |-> "permissionsets",
        oldName |-> TEMPLATE_NAME \o "_Perm_Set.permissionset-meta.xml",
        suffix  |-> "_Perm_Set.permissionset-meta.xml"] >>

\* file.newName(name) of the rule at index i of FILES
newName(i, name) == name \o FILES[i].suffix

templatePath(i) == <<FILES[i].dir, FILES[i].oldName>>

newPath(i, name) == <<FILES[i].dir, newName(i, name)>>

-----------------------------------------------------------------------------
(* File operations *)

\* GetSubstitution(matched, str, position, captures = none, replacement) of
\* String.prototype.replaceAll with a string pattern: the replacement text
\* from index i on, with $$ (a dollar sign), $& (the matched text) and $'
\* (the text after the match) expanded; a $ followed by anything else (a
\* digit or < included, there being no captures) is literal.  The fourth
\* pattern, $ followed by a grave accent (the text before the match), is
\* left out: a TLA+ string cannot hold a grave accent, so no input of the
\* model contains one.
RECURSIVE GetSubstitution(_, _, _, _, _)
GetSubstitution(matched, str, position, replacement, i) ==
    IF i > Len(replacement) THEN ""
    ELSE IF CharAt(replacement, i) = "$" /\ i < Len(replacement)
              /\ CharAt(replacement, i + 1) \in {"$", "&", "'"}
    THEN (CASE CharAt(replacement, i + 1) = "$" -> "$"
            [] CharAt(replacement, i + 1) = "&" -> matched
            [] CharAt(replacement, i + 1) = "'" ->
                   SubSeq(str, position + Len(matched), Len(str)))
         \o GetSubstitution(matched, str, position, replacement, i + 2)
    ELSE CharAt(replacement, i)
         \o GetSubstitution(matched, str, position, replacement, i + 1)

\* str.replaceAll(search, replace) for a non-empty string search: the
\* occurrences found left to right from index from on, not overlapping
RECURSIVE ReplaceFrom(_, _, _, _)
ReplaceFrom(str, search, replace, from) ==
    LET p == IndexOf(str, search, from) IN
    IF p = 0 THEN SubSeq(str, from, Len(str))
    ELSE SubSeq(str, from, p - 1)
         \o GetSubstitution(search, str, p, replace, 1)
         \o ReplaceFrom(str, search, replace, p + Len(search))

replaceAll(str, search, replace) == ReplaceFrom(str, search, replace, 1)

\* applyReplacements(content, replacements): replacements is the sequence
\* Object.entries gives, pairs <<search, replace>> in insertion order
RECURSIVE ApplyFrom(_, _, _)
ApplyFrom(result, replacements, k) ==
    IF k > Len(replacements) THEN result
    ELSE ApplyFrom(replaceAll(result, replacements[k][1], replacements[k][2]),
                   replacements, k + 1)

applyReplacements(content, replacements) == ApplyFrom(content, replacements, 1)

existsSync(files, directories, path) == path \in DOMAIN files \/ path \in directories

\* writeFileSync(path, content): creates or overwrites
writeFileSync(files, path, content) ==
    [q \in DOMAIN files \cup {path} |-> IF q = path THEN content ELSE files[q]]

\* copyFromTemplate(templatePath, newPath, replacements): the files afterwards
copyFromTemplate(files, tPath, nPath, replacements) ==
    writeFileSync(files, nPath, applyReplacements(files[tPath], replacements))

\* instanceExists looking in the scanner's directory only
instanceExistsFirstRule(files, directories, mcpName) ==
    existsSync(files, directories, newPath(1, mcpName))

instanceExists(files, directories, mcpName) ==
    \E i \in 1..Len(FILES) : existsSync(files, directories, newPath(i, mcpName))

\* UTF-16 code unit order of the characters the model uses (Array.prototype.sort
\* without a comparator orders strings by code unit)
CodeOrder ==
    "\n\r $&'-./" \o DigitChars \o ":?" \o UpperAlpha \o "_" \o LowerAlpha

Code(ch) == CHOOSE i \in 1..Len(CodeOrder) : CharAt(CodeOrder, i) = ch

RECURSIVE StrLessFrom(_, _, _)
StrLessFrom(a, b, i) ==
    IF i > Len(a) THEN i <= Len(b)
    ELSE IF i > Len(b) THEN FALSE
    ELSE IF CharAt(a, i) = CharAt(b, i) THEN StrLessFrom(a, b, i + 1)
    ELSE Code(CharAt(a, i)) < Code(CharAt(b, i))

StrLess(a, b) == StrLessFrom(a, b, 1)

\* [...names].sort()
RECURSIVE SortSet(_)
SortSet(names) ==
    IF names = {} THEN <<>>
    ELSE LET least == CHOOSE n \in names : \A m \in names \ {n} : StrLess(n, m)
         IN <<least>> \o SortSet(names \ {least})

\* readdirSync(dir, {withFileTypes: true}): the entry names of a directory
readdirSync(files, directories, dir) ==
    {p[2] : p \in {q \in DOMAIN files \cup directories : Len(q) = 2 /\ q[1] = dir}}

\* entry.name.match(/^(.+)\.externalCredential-meta\.xml$/): the name matches
\* when it ends with the suffix and what precedes it is one or more
\* characters, none a line terminator
ScanSuffix == ".externalCredential-meta.xml"

ScanMatches(name) ==
    /\ EndsWith(name, ScanSuffix)
    /\ Len(name) > Len(ScanSuffix)
    /\ \A i \in 1..(Len(name) - Len(ScanSuffix)) : CharAt(name, i) \notin LineTerminators

\* match[1]
ScanGroup(name) == SubSeq(name, 1, Len(name) - Len(ScanSuffix))

\* getExistingInstances without the comparison to TEMPLATE_NAME
getExistingInstancesWithTemplate(files, directories) ==
    LET dir == "externalCredentials" IN
    IF <<dir>> \notin directories THEN <<>>
    ELSE SortSet({ScanGroup(n) :
            n \in {e \in readdirSync(files, directories, dir) :
                     /\ <<dir, e>> \in DOMAIN files
                     /\ ScanMatches(e)}})

getExistingInstances(files, directories) ==
    LET dir == "externalCredentials" IN
    IF <<dir>> \notin directories THEN <<>>
    ELSE SortSet({ScanGroup(n) :
            n \in {e \in readdirSync(files, directories, dir) :
                     /\ <<dir, e>> \in DOMAIN files          \* entry.isFile()
                     /\ ScanMatches(e)
                     /\ ScanGroup(e) # TEMPLATE_NAME}})

-----------------------------------------------------------------------------
(* Main *)

KeyOf(k) == VARIABLES_[k].key

\* values[variable.key] = <the line promptWithValidation returned>
Collected(vals, k, line) ==
    [key \in DOMAIN vals \cup {KeyOf(k)} |-> IF key = KeyOf(k) THEN line ELSE vals[key]]

\* values.NAMESPACE ? `${values.NAMESPACE}__` : ''
namespacePrefix(ns) == IF ns # "" THEN ns \o "__" ELSE ""

\* the replacements object of main, as Object.entries lists it
replacements(vals) ==
    << <<"MCP_NAME",          vals["MCP_NAME"]>>,
       <<"MCP_SERVER_URL",    vals["MCP_SERVER_URL"]>>,
       <<"AUTH_PROVIDER_URL", vals["AUTH_PROVIDER_URL"]>>,
       <<"NAMESPACE__",       namespacePrefix(vals["NAMESPACE"])>> >>

\* isYes taking every answer that begins with y
isYesPrefix(ans) == StartsWith(toLowerCase(ans), "y")

\* confirm.toLowerCase() !== 'y' is the negation of this
isYes(ans) == toLowerCase(ans) = "y"

\* An I/O failure: none; readdirSync throwing in the scanner ("readdir");
\* in the apply phase at rule `at`, readFileSync throwing ("read"),
\* writeFileSync throwing before it touched its target ("open"), or
\* writeFileSync throwing after it truncated the target and wrote the first
\* `written` characters of the text ("write": none, or a proper prefix).
NoFault == [at |-> 0, kind |-> "none", written |-> 0]

MaxPartial == 2

ScanFaults == {NoFault, [at |-> 0, kind |-> "readdir", written |-> 0]}

Faults ==
    {NoFault} \cup
    [at : 1..Len(FILES), kind : {"read", "open"}, written : {0}] \cup
    [at : 1..Len(FILES), kind : {"write"}, written : 0..MaxPartial]

\* what a write that failed after `written` characters left of the text
PartialText(text, written) ==
    IF written < Len(text) THEN SubSeq(text, 1, written)
    ELSE SubSeq(text, 1, Len(text) - 1)

\* ApplyLoop with break in place of continue at a missing template
RECURSIVE ApplyLoopBreak(_, _, _, _, _, _)
ApplyLoopBreak(files, directories, name, repl, i, fault) ==
    IF i > Len(FILES) THEN [fs |-> files, out |-> <<>>, threw |-> FALSE]
    ELSE IF ~existsSync(files, directories, templatePath(i))
    THEN [fs |-> files, out |-> << <<"error", FILES[i].oldName>> >>, threw |-> FALSE]
    ELSE LET rest == ApplyLoopBreak(copyFromTemplate(files, templatePath(i), newPath(i, name), repl),
                                    directories, name, repl, i + 1, fault)
         IN [rest EXCEPT !.out = << <<"success", newName(i, name)>> >> \o @]

\* the for (const file of FILES) loop of main from rule i on: the files
\* afterwards, the console lines written and whether an exception left the loop
RECURSIVE ApplyLoop(_, _, _, _, _, _)
ApplyLoop(files, directories, name, repl, i, fault) ==
    IF i > Len(FILES) THEN [fs |-> files, out |-> <<>>, threw |-> FALSE]
    ELSE IF ~existsSync(files, directories, templatePath(i))
    THEN LET rest == ApplyLoop(files, directories, name, repl, i + 1, fault)
         IN [rest EXCEPT !.out = << <<"error", FILES[i].oldName>> >> \o @]
    ELSE IF templatePath(i) \in directories \/ (fault.at = i /\ fault.kind = "read")
    THEN [fs |-> files, out |-> <<>>, threw |-> TRUE]
    ELSE IF newPath(i, name) \in directories \/ (fault.at = i /\ fault.kind = "open")
    THEN [fs |-> files, out |-> <<>>, threw |-> TRUE]
    ELSE IF fault.at = i /\ fault.kind = "write"
    THEN [fs    |-> writeFileSync(files, newPath(i, name),
                        PartialText(applyReplacements(files[templatePath(i)], repl),
                                    fault.written)),
          out   |-> <<>>,
          threw |-> TRUE]
    ELSE LET rest == ApplyLoop(copyFromTemplate(files, templatePath(i), newPath(i, name), repl),
                               directories, name, repl, i + 1, fault)
         IN [rest EXCEPT !.out = << <<"success", newName(i, name)>> >> \o @]

\* ApplyChanges with a catch that logs and does not call process.exit(1)
ApplyChangesExitZero(fault) ==
    \E r \in {ApplyLoop(fs, dirs, values["MCP_NAME"], replacements(values), 1, fault)} :
    /\ fs' = r.fs
    /\ out' = << <<"header", "Step 3: Applying Changes">> >> \o r.out
              \o (IF r.threw THEN << <<"error", "err.message">> >>
                  ELSE << <<"header", "Setup Complete!">>, <<"success", "Happy coding!">> >>)
    /\ exitCode' = 0
    /\ pc' = "exited"

\* Step 3 and the closing output, or the catch of main().catch
ApplyChanges(fault) ==
    \E r \in {ApplyLoop(fs, dirs, values["MCP_NAME"], replacements(values), 1, fault)} :
    /\ fs' = r.fs
    /\ out' = << <<"header", "Step 3: Applying Changes">> >> \o r.out
              \o (IF r.threw THEN << <<"error", "err.message">> >>
                  ELSE << <<"header", "Setup Complete!">>, <<"success", "Happy coding!">> >>)
    /\ exitCode' = IF r.threw THEN 1 ELSE 0
    /\ pc' = "exited"

\* log.warning('Setup cancelled. No changes were made.'); process.exit(0)
Cancel ==
    /\ out' = << <<"warning", "Setup cancelled. No changes were made.">> >>
    /\ exitCode' = 0
    /\ pc' = "exited"
    /\ fs' = fs

\* whether getExistingInstances throws: readdirSync fails when the path
\* that existsSync found is a regular file (ENOTDIR), or for another I/O error
scanThrows(files, directories, fault) ==
    /\ existsSync(files, directories, <<"externalCredentials">>)
    /\ \/ <<"externalCredentials">> \in DOMAIN files
       \/ fault.kind = "readdir"

\* the user presses Enter at the welcome prompt: Step 1 begins, the scanner
\* runs and the first variable is asked; an exception of the scanner ends
\* the run in main().catch
PressEnter(fault) ==
    /\ pc = "welcome"
    /\ stdinOpen
    /\ answer' = ""
    /\ IF scanThrows(fs, dirs, fault)
       THEN /\ out' = << <<"header", "Step 1: Configuration Values">>,
                         <<"error", "err.message">> >>
            /\ exitCode' = 1
            /\ pc' = "exited"
            /\ UNCHANGED <<existing, varIdx>>
       ELSE /\ existing' = getExistingInstances(fs, dirs)
            /\ out' = << <<"header", "Step 1: Configuration Values">> >>
                      \o (IF Len(existing') > 0
                          THEN << <<"info", "Existing MCP instances">> >> ELSE <<>>)
                      \o << <<"prompt", KeyOf(1)>> >>
            /\ pc' = "collect"
            /\ varIdx' = 1
            /\ UNCHANGED exitCode
    /\ UNCHANGED <<fs, dirs, fs0, values, stdinOpen>>

\* standard input ends while a question is pending: the promise of prompt()
\* never resolves, nothing is left to run and the process ends with status 0
EndOfInput ==
    /\ pc \in {"welcome", "collect", "review", "overwrite"}
    /\ stdinOpen
    /\ stdinOpen' = FALSE
    /\ pc' = "exited"
    /\ exitCode' = 0
    /\ out' = <<>>
    /\ UNCHANGED <<fs, dirs, fs0, varIdx, values, existing, answer>>

\* a line arrives at the prompt of promptWithValidation(VARIABLES[varIdx])
Answer(line) ==
    /\ pc = "collect"
    /\ stdinOpen
    /\ answer' = line
    /\ IF validate(varIdx, line)
       THEN /\ values' = Collected(values, varIdx, line)
            /\ varIdx' = varIdx + 1
            /\ IF varIdx < Len(VARIABLES_)
               THEN /\ out' = << <<"prompt", KeyOf(varIdx + 1)>> >>
                    /\ pc' = "collect"
               ELSE /\ out' = << <<"header", "Step 2: Review Configuration">>,
                                 <<"confirm", "Apply these changes?">> >>
                    /\ pc' = "review"
       ELSE /\ out' = << <<"error", KeyOf(varIdx)>>, <<"prompt", KeyOf(varIdx)>> >>
            /\ UNCHANGED <<values, varIdx, pc>>
    /\ UNCHANGED <<fs, dirs, fs0, existing, exitCode, stdinOpen>>

\* a line arrives at 'Apply these changes? (y/n)'
Confirm(ans, fault) ==
    /\ pc = "review"
    /\ stdinOpen
    /\ answer' = ans
    /\ IF ~isYes(ans) THEN Cancel
       ELSE IF instanceExists(fs, dirs, values["MCP_NAME"])
       THEN /\ out' = << <<"confirm", "Overwrite?">> >>
            /\ pc' = "overwrite"
            /\ UNCHANGED <<fs, exitCode>>
       ELSE ApplyChanges(fault)
    /\ UNCHANGED <<dirs, fs0, varIdx, values, existing, stdinOpen>>

\* a line arrives at 'Metadata for ... already exists. Overwrite? (y/n)'
Overwrite(ans, fault) ==
    /\ pc = "overwrite"
    /\ stdinOpen
    /\ answer' = ans
    /\ IF ~isYes(ans) THEN Cancel ELSE ApplyChanges(fault)
    /\ UNCHANGED <<dirs, fs0, varIdx, values, existing, stdinOpen>>

-----------------------------------------------------------------------------
(* Initial states and inputs *)

\* the content of the template of rule i
TemplateContent(i) ==
    CASE i = 1 -> "<url>AUTH_PROVIDER_URL</url>"
      [] i = 2 -> "<nc>MCP_NAME</nc>"
      [] i = 3 -> "Name: MCP_NAME, URL: MCP_SERVER_URL"
      [] i = 4 -> "<ec>NAMESPACE__MCP_NAME</ec>"

\* an instance configured by an earlier run
PriorName == "weather_api"

RuleDirs == {<<FILES[i].dir>> : i \in 1..Len(FILES)}

\* the files with the templates of the rules in T and the files of the
\* earlier instance for the rules in D
MakeFiles(T, D) ==
    [p \in {templatePath(i) : i \in T} \cup {newPath(i, PriorName) : i \in D}
       |-> IF \E i \in T : p = templatePath(i)
           THEN TemplateContent(CHOOSE i \in T : p = templatePath(i))
           ELSE "old"]

\* lines typed at the variable prompts
InputLines ==
    {"weather_api", "template", "", "3weather", "my-company",
     "https://mcp.example.com/api", "https://x/$&", "ftp://x"}

\* lines typed at the confirmations
ConfirmLines == {"y", "Y", "n", "", "yes"}

InitRun ==
    /\ pc = "welcome"
    /\ varIdx = 0
    /\ values = [key \in {} |-> ""]
    /\ existing = <<>>
    /\ answer = ""
    /\ out = << <<"header", "MCP Metadata Setup Wizard">>,
                <<"prompt", "Press Enter to continue">> >>
    /\ exitCode = -1
    /\ stdinOpen = TRUE
    /\ fs0 = fs

Init ==
    /\ fs \in {MakeFiles(T, D) : T \in SUBSET (1..Len(FILES)), D \in SUBSET (1..Len(FILES))}
    /\ dirs = RuleDirs
    /\ InitRun

Next ==
    \/ PressEnter(NoFault)
    \/ \E line \in InputLines : Answer(line)
    \/ \E ans \in ConfirmLines : Confirm(ans, NoFault)
    \/ \E ans \in ConfirmLines : Overwrite(ans, NoFault)
    \/ EndOfInput

Spec == Init /\ [][Next]_vars

\* a tree whose externalCredentials entry is a regular file
ScanDirIsFile(T, D) ==
    [p \in DOMAIN MakeFiles(T, D) \cup {<<"externalCredentials">>} |->
        IF p = <<"externalCredentials">> THEN "not a directory" ELSE MakeFiles(T, D)[p]]

\* the run with I/O failures in the scanner and in the apply phase
NextIO ==
    \/ \E fault \in ScanFaults : PressEnter(fault)
    \/ \E line \in InputLines : Answer(line)
    \/ \E ans \in ConfirmLines, fault \in Faults : Confirm(ans, fault)
    \/ \E ans \in ConfirmLines, fault \in Faults : Overwrite(ans, fault)
    \/ EndOfInput

InitIO ==
    /\ \/ /\ fs \in {MakeFiles(T, D) : T \in SUBSET (1..Len(FILES)),
                                        D \in {{}, {3}, {1, 2, 3, 4}}}
          /\ dirs = RuleDirs
       \/ /\ fs \in {ScanDirIsFile(T, D) : T \in SUBSET {2, 3, 4}, D \in {{}, {3}}}
          /\ dirs = RuleDirs \ {<<"externalCredentials">>}
    /\ InitRun

SpecIO == InitIO /\ [][NextIO]_vars

\* The collection phase over every line of a small alphabet: the validation
\* predicates on all inputs up to a length.
MaxLen == 3

ValAlphabet == {"a", "7", "_", "-"}

RECURSIVE StringsUpTo(_)
StringsUpTo(n) ==
    IF n = 0 THEN {""}
    ELSE LET shorter == StringsUpTo(n - 1)
         IN shorter \cup {s \o ch : s \in shorter, ch \in ValAlphabet}

ValidateLines ==
    StringsUpTo(MaxLen) \cup
    {"weather_api", "3weather", "mycompany", "my-company", "Zed", "http://x"}

InitValidate ==
    /\ fs = MakeFiles(1..Len(FILES), {})
    /\ dirs = RuleDirs
    /\ InitRun

NextValidate ==
    \/ PressEnter(NoFault)
    \/ \E line \in ValidateLines : Answer(line)
    \/ EndOfInput

SpecValidate == InitValidate /\ [][NextValidate]_vars

\* The run over varied content of the externalCredentials directory: other
\* instances, a file with an empty name part, a file name holding a line
\* break, a sub-directory, the directory itself absent.
ScanDir == "externalCredentials"

OtherFiles ==
    {<<ScanDir, n \o ScanSuffix>> : n \in {"foo", "bar", "", "a\nb"}}

SubDirs == {<<ScanDir, "sub" \o ScanSuffix>>}

WithFiles(files, more) ==
    [p \in DOMAIN files \cup more |-> IF p \in DOMAIN files THEN files[p] ELSE "old"]

InitScan ==
    /\ \/ \E E \in SUBSET OtherFiles, S \in SUBSET SubDirs,
            T \in {{2, 3, 4}, {1, 2, 3, 4}}, D \in {{}, {1}, {3}} :
              /\ fs = WithFiles(MakeFiles(T, D), E)
              /\ dirs = RuleDirs \cup S
       \/ \E D \in {{}, {3}} :
              /\ fs \in {MakeFiles({2, 3, 4}, D), ScanDirIsFile({2, 3, 4}, D)}
              /\ dirs = RuleDirs \ {<<ScanDir>>}
    /\ InitRun

SpecScan == InitScan /\ [][Next]_vars

-----------------------------------------------------------------------------
(* Vocabulary of the properties *)

Yes == {"y", "Y"}

Last(seq) == seq[Len(seq)]

\* the confirmations and variable prompts among console lines
Prompts(lines) == {i \in 1..Len(lines) : lines[i][1] \in {"prompt", "confirm"}}

\* the chosen instance name, once collected
ChosenName == values["MCP_NAME"]

\* the four destination files of an instance name, as the file rules name them
Destinations(name) ==
    << <<"externalCredentials",          name \o ".externalCredential-meta.xml">>,
       <<"externalServiceRegistrations", name \o ".externalServiceRegistration-meta.xml">>,
       <<"namedCredentials",             name \o ".namedCredential-meta.xml">>,
       <<"permissionsets",               name \o "_Perm_Set.permissionset-meta.xml">> >>

\* the four template files
Templates == Destinations("template")

\* path p holds the same thing (nothing, or the same content) in f and g
SameAt(f, g, p) ==
    /\ p \in DOMAIN f <=> p \in DOMAIN g
    /\ p \in DOMAIN f => f[p] = g[p]

\* the run went through the apply phase: it ended on a confirmation answered yes
Applied == pc = "exited" /\ stdinOpen /\ answer \in Yes

\* every occurrence of token in s, left to right, replaced by exactly value
RECURSIVE LiteralFrom(_, _, _, _)
LiteralFrom(s, token, value, i) ==
    IF i > Len(s) THEN ""
    ELSE IF OccursAt(s, token, i) THEN value \o LiteralFrom(s, token, value, i + Len(token))
    ELSE CharAt(s, i) \o LiteralFrom(s, token, value, i + 1)

RECURSIVE LiteralApplyFrom(_, _, _)
LiteralApplyFrom(s, map, k) ==
    IF k > Len(map) THEN s
    ELSE LiteralApplyFrom(LiteralFrom(s, map[k][1], map[k][2], 1), map, k + 1)

\* the replacement map of the collected values, token by token in order
TokenMap ==
    << <<"MCP_NAME", values["MCP_NAME"]>>,
       <<"MCP_SERVER_URL", values["MCP_SERVER_URL"]>>,
       <<"AUTH_PROVIDER_URL", values["AUTH_PROVIDER_URL"]>>,
       <<"NAMESPACE__", IF values["NAMESPACE"] = "" THEN "" ELSE values["NAMESPACE"] \o "__">> >>

-----------------------------------------------------------------------------
(* Properties *)

\* C1: whatever the validated values and the answers, the content of each of
\* the four template files is the same before and after the run.
C1_TemplatesUntouched ==
    \A i \in 1..4 : SameAt(fs, fs0, Templates[i])

\* C2: an answer other than y / Y at 'Apply these changes?' ends the run with
\* exit status 0, the filesystem as it was, and no further prompt: the step
\* writes no prompt and no step follows the exit.
C2_ReviewDeclined ==
    [][ /\ (pc = "review" /\ stdinOpen' /\ answer' \notin Yes) =>
            /\ pc' = "exited"
            /\ exitCode' = 0
            /\ fs' = fs0
            /\ dirs' = dirs
            /\ Prompts(out') = {}
        /\ pc # "exited" ]_vars

C2_Witness ==
    /\ pc = "exited"
    /\ stdinOpen
    /\ exitCode = 0
    /\ answer = "yes"
    /\ out = << <<"warning", "Setup cancelled. No changes were made.">> >>
    /\ \A i \in 1..4 : Destinations(ChosenName)[i] \notin DOMAIN fs0
    /\ fs = fs0

\* C3: after y at the review, the overwrite confirmation is asked, before any
\* write, exactly when one of the four destination files exists; declining it
\* exits 0 with every file unchanged; no existing file changes except in the
\* step that answers the overwrite confirmation with y / Y.
C3_OverwriteGuard ==
    [][ /\ (pc = "review" /\ stdinOpen' /\ answer' \in Yes) =>
            IF \E i \in 1..4 : Destinations(ChosenName)[i] \in DOMAIN fs
            THEN /\ pc' = "overwrite"
                 /\ fs' = fs0
                 /\ out' = << <<"confirm", "Overwrite?">> >>
            ELSE /\ pc' = "exited"
                 /\ \A j \in 1..Len(out') : out'[j][1] # "confirm"
        /\ (pc = "overwrite" /\ stdinOpen' /\ answer' \notin Yes) =>
            /\ pc' = "exited"
            /\ exitCode' = 0
            /\ fs' = fs0
        /\ (\E p \in DOMAIN fs : ~SameAt(fs', fs, p)) =>
            (pc = "overwrite" /\ stdinOpen' /\ answer' \in Yes) ]_vars

C3_Witness ==
    /\ pc = "exited"
    /\ stdinOpen
    /\ exitCode = 0
    /\ answer = "n"
    /\ Destinations(ChosenName)[1] \notin DOMAIN fs0
    /\ Destinations(ChosenName)[3] \in DOMAIN fs0
    /\ fs = fs0

\* C4: in the apply phase the rules are processed in FILES order; a rule whose
\* template is missing logs an error and writes nothing, every rule whose
\* template exists is rendered, and the run reaches 'Setup Complete' and ends
\* without a non-zero exit status, for every subset of missing templates:
\* the console shows the Step 3 header, one line per rule in FILES order and
\* the closing output.
C4_MissingTemplateSkipped ==
    Applied =>
        /\ exitCode = 0
        /\ Len(out) = 7
        /\ out[1] = <<"header", "Step 3: Applying Changes">>
        /\ out[6] = <<"header", "Setup Complete!">>
        /\ out[7] = <<"success", "Happy coding!">>
        /\ \A i \in 1..4 :
              IF Templates[i] \in DOMAIN fs0
              THEN /\ out[i + 1] = <<"success", Destinations(ChosenName)[i][2]>>
                   /\ Destinations(ChosenName)[i] \in DOMAIN fs
                   /\ fs[Destinations(ChosenName)[i]] =
                          applyReplacements(fs0[Templates[i]], TokenMap)
              ELSE /\ out[i + 1] = <<"error", Templates[i][2]>>
                   /\ SameAt(fs, fs0, Destinations(ChosenName)[i])

C4_Witness ==
    /\ Applied
    /\ Templates[1] \notin DOMAIN fs0
    /\ Templates[2] \in DOMAIN fs0
    /\ Templates[3] \notin DOMAIN fs0
    /\ Destinations(ChosenName)[2] \in DOMAIN fs
    /\ Destinations(ChosenName)[2] \notin DOMAIN fs0
    /\ out[Len(out) - 1] = <<"header", "Setup Complete!">>

C4_WitnessAllMissing ==
    /\ Applied
    /\ \A i \in 1..4 : Templates[i] \notin DOMAIN fs0
    /\ out[Len(out) - 1] = <<"header", "Setup Complete!">>

\* the predicate the catalog gives the variable with this key
Predicate(key, val) ==
    CASE key = "MCP_NAME"          -> IdentifierRegex(val)
      [] key = "MCP_SERVER_URL"    -> UrlRegex(val)
      [] key = "AUTH_PROVIDER_URL" -> UrlRegex(val)
      [] key = "NAMESPACE"         -> val = "" \/ IdentifierRegex(val)

CatalogOrder == <<"MCP_NAME", "MCP_SERVER_URL", "AUTH_PROVIDER_URL", "NAMESPACE">>

\* C5: a line that fails the predicate of the variable being asked leaves the
\* collected values as they are, writes that variable's error and asks the
\* same variable again; the first line that passes is stored unchanged and
\* the next variable of the catalog (or the review) follows (a step that
\* reads a line: the end of input answers no prompt).  So the
\* collected keys are always a prefix of the catalog order and every
\* collected value satisfies its own predicate.
C5_CollectInOrder ==
    /\ [][ (pc = "collect" /\ stdinOpen') =>
             IF Predicate(CatalogOrder[varIdx], answer')
             THEN /\ values' = [key \in DOMAIN values \cup {CatalogOrder[varIdx]} |->
                                  IF key = CatalogOrder[varIdx] THEN answer' ELSE values[key]]
                  /\ varIdx' = varIdx + 1
                  /\ IF varIdx < 4
                     THEN pc' = "collect" /\ out' = << <<"prompt", CatalogOrder[varIdx + 1]>> >>
                     ELSE pc' = "review"
             ELSE /\ values' = values
                  /\ varIdx' = varIdx
                  /\ pc' = "collect"
                  /\ out' = << <<"error", CatalogOrder[varIdx]>>,
                               <<"prompt", CatalogOrder[varIdx]>> >> ]_vars
    /\ [](/\ DOMAIN values = {CatalogOrder[k] : k \in 1..(varIdx - 1)}
          /\ \A key \in DOMAIN values : Predicate(key, values[key])
          /\ (pc \in {"review", "overwrite"} \/ Applied) => varIdx = 5)

C5_Witness ==
    /\ pc = "collect"
    /\ varIdx = 3
    /\ answer = "ftp://x"
    /\ out = << <<"error", "AUTH_PROVIDER_URL">>, <<"prompt", "AUTH_PROVIDER_URL">> >>
    /\ DOMAIN values = {"MCP_NAME", "MCP_SERVER_URL"}

\* C6: with all four templates present, no destination file of the chosen
\* name present beforehand and every confirmation answered y, the run exits 0
\* and each destination file holds its template's content with every token of
\* the replacement map replaced by its value; the templates are unchanged.
C6_EndToEnd ==
    (/\ Applied
     /\ \A i \in 1..4 : Templates[i] \in DOMAIN fs0
     /\ \A i \in 1..4 : Destinations(ChosenName)[i] \notin DOMAIN fs0)
    => /\ exitCode = 0
       /\ \A i \in 1..4 :
            /\ Destinations(ChosenName)[i] \in DOMAIN fs
            /\ fs[Destinations(ChosenName)[i]] = LiteralApplyFrom(fs0[Templates[i]], TokenMap, 1)
            /\ SameAt(fs, fs0, Templates[i])

\* C7: rendering replaces, token by token in the map's order, every literal
\* occurrence of the token by the value and leaves the rest of the text as it
\* is: so does the content of every template under the map of the collected
\* values, and "Name: MCP_NAME, URL: MCP_SERVER_URL" under weather_api and
\* https://x renders to "Name: weather_api, URL: https://x".
C7_LiteralSubstitution ==
    /\ applyReplacements("Name: MCP_NAME, URL: MCP_SERVER_URL",
                         << <<"MCP_NAME", "weather_api">>, <<"MCP_SERVER_URL", "https://x">> >>)
           = "Name: weather_api, URL: https://x"
    /\ pc = "review" =>
          \A i \in 1..4 : Templates[i] \in DOMAIN fs =>
              applyReplacements(fs[Templates[i]], replacements(values))
                  = LiteralApplyFrom(fs[Templates[i]], TokenMap, 1)

Completed == out # <<>> /\ Last(out) = <<"success", "Happy coding!">>

Cancelled == out # <<>> /\ Last(out) = <<"warning", "Setup cancelled. No changes were made.">>

\* the run ended in main().catch
Caught == out # <<>> /\ Last(out) = <<"error", "err.message">>

\* C9: the exit status is 0 on completion and on cancellation at either
\* confirmation and 1 exactly when an exception ends the run (status 0
\* otherwise comes only from the end of input); after a failure at the
\* k-th file rule, what rules 1..k-1 wrote is still in place and the
\* destinations of the rules after k are as they were; an exception of the
\* scanner leaves every file as it was.
C9_ExitStatus ==
    /\ pc # "exited" => exitCode = -1
    /\ pc = "exited" =>
          /\ exitCode \in {0, 1}
          /\ Completed => exitCode = 0
          /\ Cancelled => (exitCode = 0 /\ fs = fs0)
          /\ exitCode = 0 => (Completed \/ Cancelled \/ ~stdinOpen)
          /\ exitCode = 1 <=> Caught
          /\ exitCode = 1 =>
                IF out[1] = <<"header", "Step 1: Configuration Values">>
                THEN fs = fs0 /\ Len(out) = 2
                ELSE
                LET k == Len(out) - 1 IN
                /\ out[1] = <<"header", "Step 3: Applying Changes">>
                /\ k \in 1..4
                /\ answer \in Yes
                /\ Templates[k] \in DOMAIN fs0
                /\ \A i \in 1..(k - 1) :
                      /\ out[i + 1][1] \in {"success", "error"}
                      /\ IF Templates[i] \in DOMAIN fs0
                         THEN /\ Destinations(ChosenName)[i] \in DOMAIN fs
                              /\ fs[Destinations(ChosenName)[i]] =
                                     applyReplacements(fs0[Templates[i]], TokenMap)
                         ELSE SameAt(fs, fs0, Destinations(ChosenName)[i])
                /\ \A i \in (k + 1)..4 : SameAt(fs, fs0, Destinations(ChosenName)[i])

\* a write failed at the third rule after part of the text was written
C9_Witness ==
    /\ pc = "exited"
    /\ exitCode = 1
    /\ Len(out) = 4
    /\ out[1] = <<"header", "Step 3: Applying Changes">>
    /\ \A i \in {1, 2} : /\ Destinations(ChosenName)[i] \in DOMAIN fs
                         /\ Destinations(ChosenName)[i] \notin DOMAIN fs0
    /\ Destinations(ChosenName)[3] \in DOMAIN fs
    /\ Destinations(ChosenName)[3] \notin DOMAIN fs0
    /\ fs[Destinations(ChosenName)[3]] = "Na"
    /\ Destinations(ChosenName)[4] \notin DOMAIN fs
    /\ Templates[4] \in DOMAIN fs0

\* the letters, and the letters, digits and underscore, written out
Letters ==
    {"a", "b", "c", "d", "e", "f", "g", "h", "i", "j", "k", "l", "m",
     "n", "o", "p", "q", "r", "s", "t", "u", "v", "w", "x", "y", "z",
     "A", "B", "C", "D", "E", "F", "G", "H", "I", "J", "K", "L", "M",
     "N", "O", "P", "Q", "R", "S", "T", "U", "V", "W", "X", "Y", "Z"}

NameChars == Letters \cup {"0", "1", "2", "3", "4", "5", "6", "7", "8", "9", "_"}

\* one or more characters, the first a letter, the rest letters, digits or underscores
IsName(s) ==
    /\ Len(s) >= 1
    /\ CharAt(s, 1) \in Letters
    /\ \A i \in 2..Len(s) : CharAt(s, i) \in NameChars

\* the last line read was refused
Refused == out # <<>> /\ out[1][1] = "error"

\* C10: the MCP_NAME prompt accepts a line iff it is one or more characters,
\* the first a letter and the rest letters, digits or underscores; the
\* NAMESPACE prompt accepts exactly the empty line and the same lines.
C10_NamePredicates ==
    /\ (pc = "collect" /\ varIdx = 1 /\ Refused) => ~IsName(answer)
    /\ (pc = "collect" /\ varIdx = 2 /\ ~Refused) => (IsName(answer) /\ ChosenName = answer)
    /\ (pc = "collect" /\ varIdx = 4 /\ Refused) => ~(answer = "" \/ IsName(answer))
    /\ pc = "review" => ((answer = "" \/ IsName(answer)) /\ values["NAMESPACE"] = answer)

C10_Witness ==
    /\ pc = "collect"
    /\ varIdx = 4
    /\ Refused
    /\ answer = "my-company"
    /\ ChosenName = "weather_api"

\* the name parts of the regular files <name>.externalCredential-meta.xml of
\* the externalCredentials directory
InstanceFileNames ==
    {SubSeq(p[2], 1, Len(p[2]) - Len(".externalCredential-meta.xml")) :
        p \in {q \in DOMAIN fs0 : /\ q[1] = "externalCredentials"
                                  /\ EndsWith(q[2], ".externalCredential-meta.xml")}}

HasLineBreak(s) == \E i \in 1..Len(s) : CharAt(s, i) \in {"\n", "\r"}

\* the scanner's result is duplicate free and ascending, and holds exactly `names`
ListsExactly(names) ==
    /\ {existing[i] : i \in 1..Len(existing)} = names
    /\ \A i \in 1..Len(existing) : \A j \in (i + 1)..Len(existing) :
          StrLess(existing[i], existing[j])

\* the scanner decides neither what is collected nor the overwrite
\* confirmation: the catalog's four variables are collected whatever it
\* found, and the confirmation is asked exactly when a destination file exists
ScannerAdvisory ==
    /\ [](pc = "review" => DOMAIN values = {CatalogOrder[k] : k \in 1..4})
    /\ [][(pc = "review" /\ stdinOpen' /\ answer' \in Yes) =>
            (pc' = "overwrite" <=>
                \E i \in 1..4 : Destinations(ChosenName)[i] \in DOMAIN fs \cup dirs)]_vars

\* the welcome prompt was answered, so the scanner was called
ScannerCalled == pc # "welcome" /\ (stdinOpen \/ varIdx > 0)

\* the scanner returned (it did not raise)
ScannerReturned == varIdx > 0

\* C8 as stated: without the directory the scanner returns the empty list and
\* does not raise; otherwise it returns exactly the names <name> with a regular
\* file <name>.externalCredential-meta.xml other than 'template', sorted, no
\* duplicates.
C8_ScannerAsStated ==
    ScannerCalled =>
        /\ ScannerReturned
        /\ IF <<"externalCredentials">> \notin dirs THEN existing = <<>>
           ELSE ListsExactly(InstanceFileNames \ {"template"})

\* C8, amended: nothing at the path gives the empty list and no error; a
\* regular file at the path makes the scanner raise; a directory gives the
\* names that are non-empty and hold no line break; and the result decides
\* neither the collection nor the overwrite confirmation.
C8_Scanner ==
    /\ [](ScannerCalled =>
            IF <<"externalCredentials">> \in DOMAIN fs0
            THEN ~ScannerReturned /\ pc = "exited" /\ exitCode = 1 /\ fs = fs0
            ELSE /\ ScannerReturned
                 /\ IF <<"externalCredentials">> \notin dirs THEN existing = <<>>
                    ELSE ListsExactly({n \in InstanceFileNames :
                                          n # "template" /\ n # "" /\ ~HasLineBreak(n)}))
    /\ ScannerAdvisory

C8_Witness ==
    /\ pc = "overwrite"
    /\ existing = <<"bar", "foo">>
    /\ ChosenName = "weather_api"
    /\ Templates[1] \in DOMAIN fs0
    /\ <<"externalCredentials", "a\nb.externalCredential-meta.xml">> \in DOMAIN fs0
    /\ <<"externalCredentials", "sub.externalCredential-meta.xml">> \in dirs

====
